---- MODULE Spec2Model ----
(***************************************************************************)
(* Batch enrichment pipeline of the BAYC transfer indexer (src/main.ts).   *)
(*                                                                         *)
(* One batch handler runs at a time (processor.run): it collects the       *)
(* Transfer events of the batch, resolves the Owner and Token entities     *)
(* against the store, reads tokenURI for the newly created tokens through  *)
(* the Multicall contract, fetches the metadata documents in rate-limit    *)
(* groups with staggered timers, merges them into the new tokens and       *)
(* upserts owners, tokens and transfers.                                   *)
(*                                                                         *)
(* Strings that the code inspects (token ids, URIs, URLs) are sequences of *)
(* one-character strings.  Time is counted in milliseconds.                *)
(***************************************************************************)
EXTENDS Integers, Sequences, FiniteSets, TLC

(***************************************************************************)
(* Bounds of the model.                                                    *)
(***************************************************************************)
\* Transfer events emitted by the contract over the whole run.
MaxEvents == 3
\* Batches handed to the handler over the whole run.
MaxBatches == 2
\* Token indices of the collection are 1..MaxTokenIndex.
MaxTokenIndex == 2
\* The rate ceiling MAX_IPFS_REQ_SEC of a run ranges over 1..MaxRate.
MaxRate == 2
\* The page size MUTLTICALL_BATCH_SIZE of a run ranges over 1..MaxPage.
MaxPage == 2
\* Time a GET takes when it does not answer at once, in ms.
Latency == 250
\* splitIntoBatches on its own: lists of up to MaxLen items, chunk sizes 1..MaxSize.
MaxLen == 5
MaxSize == 3

(***************************************************************************)
(* Values.                                                                 *)
(***************************************************************************)
\* An optional value (`T | undefined`, `T | null`) is <<>> when it is unset
\* and <<v>> when it holds v.
Unset == <<>>
Some(v) == <<v>>

\* Addresses as the contract emits them; the zero address is the `from` of a mint.
ZeroAddress == "0x0"
Holders == {"0xA", "0xB", "0xC"}

\* String.prototype.toLowerCase on the addresses above.
toLowerCase(s) ==
    CASE s = "0xA" -> "0xa"
      [] s = "0xB" -> "0xb"
      [] s = "0xC" -> "0xc"
      [] OTHER -> s

TokenIndices == 1..MaxTokenIndex

Min(a, b) == IF a < b THEN a ELSE b

\* Number.prototype.toString / BigInt.prototype.toString: decimal digits.
Digit(d) == <<"0", "1", "2", "3", "4", "5", "6", "7", "8", "9">>[d + 1]

RECURSIVE toString(_)
toString(n) == IF n < 10 THEN <<Digit(n)>> ELSE toString(n \div 10) \o <<Digit(n % 10)>>

\* String.prototype.startsWith
startsWith(s, prefix) ==
    /\ Len(s) >= Len(prefix)
    /\ SubSeq(s, 1, Len(prefix)) = prefix

\* Math.ceil(a / b) for non-negative a and positive b.
Ceil(a, b) == (a + b - 1) \div b

IpfsScheme  == <<"i", "p", "f", "s", ":", "/", "/">>
HttpScheme  == <<"h", "t", "t", "p", ":", "/", "/">>
HttpsScheme == <<"h", "t", "t", "p", "s", ":", "/", "/">>

\* 'https://ipfs.io'
IPFS_GATEWAY == HttpsScheme \o <<"i", "p", "f", "s", ".", "i", "o">>

Last(s) == s[Len(s)]

(***************************************************************************)
(* The world outside the handler.                                          *)
(***************************************************************************)
\* erc721 tokenURI(index) as the contract answers at block `block`: the
\* collection serves ipfs://, http://, ftp:// and https:// pointers, and the
\* pointer of a token (and its scheme) changes from block to block.
tokenURI(index, block) ==
    LET kind == ((index - 1) * block) % 4
        name == toString(index) \o <<"v">> \o toString(block)
    IN  CASE kind = 0 -> IpfsScheme \o <<"Q">> \o name
          [] kind = 1 -> HttpScheme \o <<"h", "/">> \o name
          [] kind = 2 -> <<"f", "t", "p", ":", "/", "/", "x">> \o name
          [] OTHER    -> HttpsScheme \o <<"s", "/">> \o name

\* The JSON document of the collection at `url`.
WebDoc(url) ==
    [image      |-> Some(<<"img@">> \o url),
     attributes |-> Some(<<[trait_type |-> "Fur", value |-> Last(url)]>>)]

\* The JSON documents a gateway may answer a GET of `url` with: the document
\* of the collection, or one without `image`, or one without `attributes`.
WebDocs(url) ==
    {WebDoc(url), [WebDoc(url) EXCEPT !.image = Unset], [WebDoc(url) EXCEPT !.attributes = Unset]}

(***************************************************************************)
(* Helpers of main.ts.                                                     *)
(***************************************************************************)
\* path.posix.normalize on paths without "." and ".." segments: runs of
\* slashes collapse into one slash.
RECURSIVE normalize(_)
normalize(p) ==
    IF Len(p) <= 1 THEN p
    ELSE IF p[1] = "/" /\ p[2] = "/" THEN normalize(Tail(p))
    ELSE <<p[1]>> \o normalize(Tail(p))

\* path.posix.join(a, b) for non-empty a and b.
join(a, b) == normalize(a \o <<"/">> \o b)

\* ipfsRegExp.exec(uri): the capture group of /^ipfs:\/\/(.+)$/, or Unset (null).
ipfsRegExp(uri) ==
    IF startsWith(uri, IpfsScheme) /\ Len(uri) > Len(IpfsScheme)
    THEN Some(SubSeq(uri, Len(IpfsScheme) + 1, Len(uri)))
    ELSE Unset

\* fetchTokenMetadata up to its first await: a GET of a URL, a skip for an
\* unsupported scheme, or a throw when the synchronous part raises.
RequestOfAnyScheme(uri) ==
    IF startsWith(uri, IpfsScheme)
    THEN IF ipfsRegExp(uri) = Unset THEN [kind |-> "throw"]
         ELSE [kind |-> "get", url |-> join(IPFS_GATEWAY, ipfsRegExp(uri)[1])]
    ELSE [kind |-> "get", url |-> uri]

RequestOf(uri) ==
    IF startsWith(uri, IpfsScheme)
    THEN IF ipfsRegExp(uri) = Unset THEN [kind |-> "throw"]
         ELSE [kind |-> "get", url |-> join(IPFS_GATEWAY, ipfsRegExp(uri)[1])]
    ELSE IF startsWith(uri, HttpScheme) \/ startsWith(uri, HttpsScheme)
         THEN [kind |-> "get", url |-> uri]
    ELSE [kind |-> "skip"]

\* splitIntoBatches: the chunks the generator yields, in order.
RECURSIVE splitFrom(_, _, _)
RECURSIVE splitFromInclusive(_, _, _)
splitFromInclusive(list, offset, maxBatchSize) ==
    IF Len(list) - offset >= maxBatchSize
    THEN <<SubSeq(list, offset + 1, offset + maxBatchSize)>>
             \o splitFromInclusive(list, offset + maxBatchSize, maxBatchSize)
    ELSE <<SubSeq(list, offset + 1, Len(list))>>

splitFrom(list, offset, maxBatchSize) ==
    IF Len(list) - offset > maxBatchSize
    THEN <<SubSeq(list, offset + 1, offset + maxBatchSize)>>
             \o splitFrom(list, offset + maxBatchSize, maxBatchSize)
    ELSE <<SubSeq(list, offset + 1, Len(list))>>

splitIntoOne(list, maxBatchSize) == <<list>>
splitIntoBatches(list, maxBatchSize) ==
    IF Len(list) <= maxBatchSize THEN <<list>> ELSE splitFrom(list, 0, maxBatchSize)

\* The delay of the sleep() before the fetch of item `index` of a group.
StaggerDelayFromZero(index, r) == Ceil(1000 * index, r)
StaggerDelay(index, rate) == Ceil(1000 * (index + 1), rate)

\* new Owner({id}) and new Token({id, index})
NewOwner(id) == [id |-> id]
NewToken(id, index) ==
    [id |-> id, index |-> index, owner |-> Unset, uri |-> Unset, image |-> Unset,
     attributes |-> Unset]

\* new Attribute({traitType: a.trait_type, value: a.value})
NewAttribute(a) == [traitType |-> a.trait_type, value |-> a.value]

\* lines 80-90: owners.get(id), or a new Owner put into the map.
ResolveOwner(map, id) == IF id \in DOMAIN map THEN map ELSE map @@ (id :> NewOwner(id))

\* lines 94-99: tokens.get(tokenId), or a new Token.
TokenForAlwaysNew(map, tokenId, index) == NewToken(tokenId, index)
TokenFor(map, tokenId, index) ==
    IF tokenId \in DOMAIN map THEN map[tokenId] ELSE NewToken(tokenId, index)

\* line 101: newTokens.push(token), inside `if (token == null)`.
TrackNewAlways(list, token, isNew) == Append(list, token.id)
TrackNew(list, token, isNew) == IF isNew THEN Append(list, token.id) ELSE list

\* line 103: token.owner = to
AssignOwnerOnce(token, to, isNew) == IF isNew THEN [token EXCEPT !.owner = Some(to)] ELSE token
AssignOwnerOfLoaded(token, to, isNew) == IF isNew THEN token ELSE [token EXCEPT !.owner = Some(to)]
AssignOwner(token, to, isNew) == [token EXCEPT !.owner = Some(to)]

\* line 117: transfers.push(transfer)
PushTransferOncePerToken(list, transfer) ==
    IF \E i \in 1..Len(list) : list[i].token = transfer.token THEN list
    ELSE Append(list, transfer)
PushTransfer(list, transfer) == Append(list, transfer)

\* One iteration of the resolution loop of processTransfers (lines 79-118),
\* on the loop state st = [owners, tokens, newTokens, transfers].
ResolveStep(st, td) ==
    LET owners1 == ResolveOwner(st.owners, td.from)
        from    == owners1[td.from]
        owners2 == ResolveOwner(owners1, td.to)
        to      == owners2[td.to]
        tokenId == toString(td.tokenIndex)
        isNew   == tokenId \notin DOMAIN st.tokens
        token   == AssignOwner(TokenFor(st.tokens, tokenId, td.tokenIndex), to, isNew)
        transfer == [id |-> td.id, blockNumber |-> td.block, from |-> from,
                     to |-> to, token |-> token.id]
    IN  [owners    |-> owners2,
         tokens    |-> (token.id :> token) @@ st.tokens,
         newTokens |-> TrackNew(st.newTokens, token, isNew),
         transfers |-> PushTransfer(st.transfers, transfer)]

\* The loop: the state an iteration leaves is the state the next one starts from.
RECURSIVE ResolveLoop(_, _)
ResolveLoop(st, tds) ==
    IF tds = <<>> THEN st
    ELSE CHOOSE end \in {ResolveLoop(next, Tail(tds)) : next \in {ResolveStep(st, Head(tds))}} :
             TRUE

\* The merge loop of initTokens (lines 151-161) on the tokens map.
\* list[i] of a JavaScript array, 1-based: unset beyond the end.
At(list, i) == IF i > Len(list) THEN Unset ELSE Some(list[i])

\* metadatas[i]?.image and metadatas[i]?.attributes
MergedField(metadatas, i, field) ==
    IF i > Len(metadatas) \/ metadatas[i] = Unset THEN Unset ELSE metadatas[i][1][field]

MergedAttributes(metadatas, i) ==
    LET as == MergedField(metadatas, i, "attributes")
    IN  IF as = Unset THEN Unset ELSE Some([j \in 1..Len(as[1]) |-> NewAttribute(as[1][j])])

\* lines 154-160: `metadatas[i]?.attributes.map(...)` raises a TypeError when
\* there is a document at i and it has no `attributes`.
MergeThrows(metadatas, i) ==
    /\ i <= Len(metadatas)
    /\ metadatas[i] # Unset
    /\ metadatas[i][1].attributes = Unset

\* lines 152-160: the three assignments of one iteration; the third one is
\* not reached when its right-hand side raises.
MergeToken(token, uris, metadatas, i) ==
    IF MergeThrows(metadatas, i)
    THEN [token EXCEPT !.uri = At(uris, i),
                       !.image = MergedField(metadatas, i, "image")]
    ELSE [token EXCEPT !.uri = At(uris, i),
                       !.image = MergedField(metadatas, i, "image"),
                       !.attributes = MergedAttributes(metadatas, i)]

\* The loop stops at the iteration that raises.
RECURSIVE MergeLoop(_, _, _, _, _)
MergeLoop(toks, list, uris, metadatas, i) ==
    IF i > Len(list) THEN toks
    ELSE LET merged == [toks EXCEPT ![list[i]] = MergeToken(toks[list[i]], uris, metadatas, i)]
         IN  IF MergeThrows(metadatas, i) THEN merged
             ELSE MergeLoop(merged, list, uris, metadatas, i + 1)

\* store.upsert on a table kept as a function from id to row.
Upsert(table, rows) ==
    [id \in DOMAIN table \cup DOMAIN rows |->
        IF id \in DOMAIN rows THEN rows[id] ELSE table[id]]

\* store.findBy(Entity, {id: In(ids)})
FindByAll(table, ids) == table
FindByNone(table, ids) == [id \in {} |-> table[id]]
FindBy(table, ids) == [id \in DOMAIN table \cap ids |-> table[id]]

EmptyMap == <<>>

\* The error processTransfers is rejected with: what failed, the URI its
\* message names (none but for a fetch), and the rate-limit group and the
\* time at which it was thrown.
Rejection(cause) == Some([cause |-> cause, uri |-> <<>>, group |-> 0, at |-> 0])

\* line 193: new Error(`failed to fetch metadata at ${uri}. Error: ${e}`)
FetchErrorAnonymous(uri, g, t) == [cause |-> "fetch", uri |-> <<>>, group |-> g, at |-> t]
FetchError(uri, g, t) == [cause |-> "fetch", uri |-> uri, group |-> g, at |-> t]

\* Promise.all is rejected with the first rejection among its promises; a
\* later one is dropped.
RejectAll(rejection, e) == IF rejection = Unset THEN Some(e) ELSE rejection

(***************************************************************************)
(* State.                                                                  *)
(***************************************************************************)
VARIABLES
    chainOwner,    \* the contract: holder of every token index
    nextLogId,     \* the contract: Transfer events emitted so far
    height,        \* last block handed to the handler; one block per batch
    rate,          \* MAX_IPFS_REQ_SEC of this run
    page,          \* MUTLTICALL_BATCH_SIZE of this run
    dbOwners,      \* ctx.store, Owner table: id -> row
    dbTokens,      \* ctx.store, Token table: id -> row
    dbTransfers,   \* ctx.store, Transfer table: id -> row
    pc,            \* where the handler is suspended
    transfersData, \* processTransfers: the TransferEvent list of the batch
    tokensIds,     \* processTransfers: Set of token ids
    ownersIds,     \* processTransfers: Set of owner ids
    tokens,        \* processTransfers: Map id -> Token
    owners,        \* processTransfers: Map id -> Owner
    newTokens,     \* processTransfers: ids of the Token objects created in this batch, in order
    transfers,     \* processTransfers: Transfer[]
    aggCalls,      \* Multicall.aggregate: the chunks of token indices called so far
    results,       \* Multicall.aggregate: decoded results so far
    tokenURIs,     \* initTokens: result of the aggregate call
    metadatas,     \* initTokens: (TokenMetadata | undefined)[]
    group,         \* initTokens: number of chunks taken from splitIntoBatches
    batch,         \* initTokens: the current chunk of URIs
    groupStart,    \* initTokens: time at which the current chunk was taken
    sleeping,      \* positions (1-based) of the chunk whose sleep() is pending
    inflight,      \* positions of the chunk whose GET is pending
    m,             \* the fulfilled promises of the chunk, [k, value], as they settle
    now,           \* the clock, in ms
    fetchLog,      \* every call of fetchTokenMetadata so far
    error,         \* the error processTransfers was rejected with, if any
    writes,        \* the upserts processTransfers has issued for the batch, in order
    splitList,     \* splitIntoBatches on its own: the list
    splitSize,     \* splitIntoBatches on its own: maxBatchSize
    yielded,       \* splitIntoBatches on its own: the chunks a for-of loop has taken
    tokensKeys     \* saveTransfers: the keys of the `tokens` Map, in insertion order

storeVars == <<dbOwners, dbTokens, dbTransfers>>
chainVars == <<chainOwner, nextLogId, height>>
confVars  == <<rate, page>>
batchVars == <<transfersData, tokensIds, ownersIds, tokens, owners, newTokens, transfers>>
aggVars   == <<aggCalls, results, tokenURIs>>
groupVars == <<metadatas, group, batch, groupStart, sleeping, inflight, m>>
splitVars == <<splitList, splitSize, yielded>>
saveVars  == <<tokensKeys>>
handlerVars == <<chainOwner, nextLogId, height, rate, page, dbOwners, dbTokens, dbTransfers, pc,
                 transfersData, tokensIds, ownersIds, tokens, owners, newTokens, transfers,
                 aggCalls, results, tokenURIs, metadatas, group, batch, groupStart, sleeping,
                 inflight, m, now, fetchLog, error, writes>>
vars == <<handlerVars, splitVars, saveVars>>

\* The handler before its first batch.
HandlerInit ==
    /\ chainOwner = [i \in TokenIndices |-> ZeroAddress]
    /\ nextLogId = 0
    /\ height = 0
    /\ rate \in 1..MaxRate
    /\ page \in 1..MaxPage
    /\ dbOwners = EmptyMap
    /\ dbTokens = EmptyMap
    /\ dbTransfers = EmptyMap
    /\ pc = "idle"
    /\ transfersData = <<>>
    /\ tokensIds = {}
    /\ ownersIds = {}
    /\ tokens = EmptyMap
    /\ owners = EmptyMap
    /\ newTokens = <<>>
    /\ transfers = <<>>
    /\ aggCalls = <<>>
    /\ results = <<>>
    /\ tokenURIs = <<>>
    /\ metadatas = <<>>
    /\ group = 0
    /\ batch = <<>>
    /\ groupStart = 0
    /\ sleeping = {}
    /\ inflight = {}
    /\ m = <<>>
    /\ now = 0
    /\ fetchLog = <<>>
    /\ error = Unset
    /\ writes = <<>>

Init ==
    /\ HandlerInit
    /\ splitList = <<>>
    /\ splitSize = 1
    /\ yielded = <<>>
    /\ tokensKeys = <<>>

(***************************************************************************)
(* The contract and the batch handler.                                     *)
(***************************************************************************)
\* The Transfer logs the contract emits for a sequence of <<token index,
\* recipient>> choices: the `from` of a log is the holder at that moment.
RECURSIVE Emit(_, _, _)
Emit(holder, choices, logId) ==
    IF choices = <<>> THEN [logs |-> <<>>, holder |-> holder]
    ELSE LET c    == Head(choices)
             log  == [id |-> logId + 1, from |-> holder[c[1]], to |-> c[2], tokenId |-> c[1]]
             rest == Emit([holder EXCEPT ![c[1]] = c[2]], Tail(choices), logId + 1)
         IN  [logs |-> <<log>> \o rest.logs, holder |-> rest.holder]

getTransfer(log, block) ==
    [id |-> log.id, block |-> block, from |-> toLowerCase(log.from),
     to |-> toLowerCase(log.to), tokenIndex |-> log.tokenId]

\* processor.run handler and processTransfers up to the first findBy.
ReceiveBatch ==
    /\ pc = "idle"
    /\ height < MaxBatches
    /\ \E n \in 0..(MaxEvents - nextLogId) :
       \E choices \in [1..n -> TokenIndices \X Holders] :
          LET emitted == Emit(chainOwner, choices, nextLogId)
              data    == [i \in 1..n |-> getTransfer(emitted.logs[i], height + 1)]
          IN  /\ chainOwner' = emitted.holder
              /\ nextLogId' = nextLogId + n
              /\ transfersData' = data
              /\ tokensIds' = {toString(data[i].tokenIndex) : i \in 1..n}
              /\ ownersIds' = {data[i].from : i \in 1..n} \cup {data[i].to : i \in 1..n}
    /\ height' = height + 1
    /\ tokens' = EmptyMap
    /\ owners' = EmptyMap
    /\ newTokens' = <<>>
    /\ transfers' = <<>>
    /\ aggCalls' = <<>>
    /\ results' = <<>>
    /\ tokenURIs' = <<>>
    /\ metadatas' = <<>>
    /\ group' = 0
    /\ batch' = <<>>
    /\ m' = <<>>
    /\ error' = Unset
    /\ writes' = <<>>
    /\ pc' = "findTokens"
    /\ UNCHANGED <<splitVars, saveVars, confVars, storeVars, groupStart, sleeping, inflight, now, fetchLog>>

\* line 75: the Token lookup resolves.
FindTokens ==
    /\ pc = "findTokens"
    /\ tokens' = FindBy(dbTokens, tokensIds)
    /\ pc' = "findOwners"
    /\ UNCHANGED <<splitVars, saveVars, chainVars, confVars, storeVars, transfersData, tokensIds, ownersIds, owners,
                   newTokens, transfers, aggVars, groupVars, now, fetchLog,
                   error, writes>>

\* line 75: the Token lookup fails and rejects processTransfers.
FindTokensFail ==
    /\ pc = "findTokens"
    /\ pc' = "failed"
    /\ error' = Rejection("lookup")
    /\ UNCHANGED <<splitVars, saveVars, chainVars, confVars, storeVars, batchVars, aggVars, groupVars, now, fetchLog,
                   writes>>

\* line 76: the Owner lookup resolves.
FindOwners ==
    /\ pc = "findOwners"
    /\ owners' = FindBy(dbOwners, ownersIds)
    /\ pc' = "resolve"
    /\ UNCHANGED <<splitVars, saveVars, chainVars, confVars, storeVars, transfersData, tokensIds, ownersIds, tokens,
                   newTokens, transfers, aggVars, groupVars, now, fetchLog,
                   error, writes>>

\* line 76: the Owner lookup fails and rejects processTransfers.
FindOwnersFail ==
    /\ pc = "findOwners"
    /\ pc' = "failed"
    /\ error' = Rejection("lookup")
    /\ UNCHANGED <<splitVars, saveVars, chainVars, confVars, storeVars, batchVars, aggVars, groupVars, now, fetchLog,
                   writes>>

\* lines 78-118: the resolution loop; then initTokens is entered.
Resolve ==
    /\ pc = "resolve"
    /\ LET st == ResolveLoop([owners |-> owners, tokens |-> tokens, newTokens |-> <<>>,
                              transfers |-> <<>>], transfersData)
       IN  /\ owners' = st.owners
           /\ tokens' = st.tokens
           /\ newTokens' = st.newTokens
           /\ transfers' = st.transfers
    /\ pc' = "aggregate"
    /\ UNCHANGED <<splitVars, saveVars, chainVars, confVars, storeVars, transfersData, tokensIds, ownersIds,
                   aggVars, groupVars, now, fetchLog,
                   error, writes>>

\* line 134: tokens.map((t) => [t.index])
Args == [i \in 1..Len(newTokens) |-> tokens[newTokens[i]].index]

\* Multicall.aggregate(tokenURI, CONTRACT_ADDRESS, args, maxBatchSize) at a
\* block: one call per chunk of at most maxBatchSize arguments, the decoded
\* results concatenated in order.
RECURSIVE aggregate(_, _, _)
aggregate(args, maxBatchSize, block) ==
    IF args = <<>> THEN <<>>
    ELSE LET n == Min(maxBatchSize, Len(args))
         IN  [i \in 1..n |-> tokenURI(args[i], block)]
                 \o aggregate(SubSeq(args, n + 1, Len(args)), maxBatchSize, block)

\* Multicall.aggregate: the calls of one page, [from, to) of the argument list.
PageCallsReversed(from, to) == [i \in 1..(to - from) |-> Args[to - i + 1]]
PageCalls(from, to) == SubSeq(Args, from + 1, to)

\* Multicall.aggregate: one eth_call for the next page of calls.
AggregatePage ==
    /\ pc = "aggregate"
    /\ Len(results) < Len(newTokens)
    /\ LET from  == Len(results)
           to    == Min(from + page, Len(newTokens))
           calls == PageCalls(from, to)
       IN  /\ aggCalls' = Append(aggCalls, calls)
           /\ results' = results \o [i \in 1..Len(calls) |-> tokenURI(calls[i], height)]
    /\ UNCHANGED <<splitVars, saveVars, chainVars, confVars, storeVars, pc, batchVars, tokenURIs, groupVars, now,
                   fetchLog,
                   error, writes>>

\* Multicall.aggregate: the eth_call of the next page fails; aggregate,
\* initTokens (lines 131-136) and processTransfers are rejected.
AggregateFail ==
    /\ pc = "aggregate"
    /\ Len(results) < Len(newTokens)
    /\ pc' = "failed"
    /\ error' = Rejection("aggregate")
    /\ UNCHANGED <<splitVars, saveVars, chainVars, confVars, storeVars, batchVars, aggVars, groupVars, now, fetchLog,
                   writes>>

\* lines 131-138: aggregate returns its results.
AggregateReturn ==
    /\ pc = "aggregate"
    /\ Len(results) = Len(newTokens)
    /\ tokenURIs' = results
    /\ metadatas' = <<>>
    /\ group' = 0
    /\ pc' = "nextGroup"
    /\ UNCHANGED <<splitVars, saveVars, chainVars, confVars, storeVars, batchVars, aggCalls, results, batch,
                   groupStart, sleeping, inflight, m, now, fetchLog,
                   error, writes>>

\* lines 139-146: the next chunk is taken and the sleep() of every item is armed.
StartGroup ==
    /\ pc = "nextGroup"
    /\ group < Len(splitIntoBatches(tokenURIs, rate))
    /\ group' = group + 1
    /\ batch' = splitIntoBatches(tokenURIs, rate)[group + 1]
    /\ groupStart' = now
    /\ sleeping' = 1..Len(batch')
    /\ inflight' = {}
    /\ m' = <<>>
    /\ pc' = "join"
    /\ UNCHANGED <<splitVars, saveVars, chainVars, confVars, storeVars, batchVars, aggVars, metadatas, now, fetchLog,
                   error, writes>>

Deadline(k) == groupStart + StaggerDelay(k - 1, rate)

\* lines 143-145 and 177-191: the sleep() of item k elapses and
\* fetchTokenMetadata runs up to its first await.
TimerFire(k) ==
    /\ pc \in {"join", "failed"}
    /\ k \in sleeping
    /\ now = Deadline(k)
    /\ sleeping' = sleeping \ {k}
    /\ LET req == RequestOf(batch[k])
       IN  /\ fetchLog' = Append(fetchLog, [at |-> now, batch |-> height, group |-> group,
                                            start |-> groupStart, index |-> k - 1,
                                            uri |-> batch[k], request |-> req])
           /\ CASE req.kind = "get"  -> /\ inflight' = inflight \cup {k}
                                        /\ UNCHANGED <<m, pc, error>>
                [] req.kind = "skip" -> /\ m' = Append(m, [k |-> k, value |-> Unset])
                                        /\ UNCHANGED <<inflight, pc, error>>
                [] OTHER             -> /\ pc' = "failed"
                                        /\ error' = RejectAll(error, FetchError(batch[k], group, now))
                                        /\ UNCHANGED <<inflight, m>>
    /\ UNCHANGED <<splitVars, saveVars, chainVars, confVars, storeVars, batchVars, aggVars, metadatas, group, batch,
                   groupStart, now, writes>>

\* lines 181-183 and 185-187: the GET of item k answers.
FetchResolve(k) ==
    /\ pc \in {"join", "failed"}
    /\ k \in inflight
    /\ inflight' = inflight \ {k}
    /\ \E doc \in WebDocs(RequestOf(batch[k]).url) :
           m' = Append(m, [k |-> k, value |-> Some(doc)])
    /\ UNCHANGED <<splitVars, saveVars, chainVars, confVars, storeVars, pc, batchVars, aggVars, metadatas, group,
                   batch, groupStart, sleeping, now, fetchLog,
                   error, writes>>

\* lines 192-194: the GET of item k fails; the error thrown by
\* fetchTokenMetadata rejects Promise.all, initTokens and processTransfers.
FetchFail(k) ==
    /\ pc \in {"join", "failed"}
    /\ k \in inflight
    /\ inflight' = inflight \ {k}
    /\ pc' = "failed"
    /\ error' = RejectAll(error, FetchError(batch[k], group, now))
    /\ UNCHANGED <<splitVars, saveVars, chainVars, confVars, storeVars, batchVars, aggVars, metadatas, group, batch,
                   groupStart, sleeping, m, now, fetchLog, writes>>

\* Promise.all over the chunk: fulfilled once every promise is fulfilled,
\* with the values in the order of the chunk.
Settled == {m[i].k : i \in 1..Len(m)}
GroupSettledAny == m # <<>>
GroupSettledWhenStarted == sleeping = {}
GroupSettled == Settled = 1..Len(batch)
ValueOf(k) == IF k \in Settled THEN (CHOOSE e \in {m[i] : i \in 1..Len(m)} : e.k = k).value
              ELSE Unset
PromiseAllValuesAsSettled == [i \in 1..Len(m) |-> m[i].value]
PromiseAllValues == [k \in 1..Len(batch) |-> ValueOf(k)]

\* lines 140 and 148: Promise.all is fulfilled and its values are pushed.
JoinGroup ==
    /\ pc = "join"
    /\ GroupSettled
    /\ metadatas' = metadatas \o PromiseAllValues
    /\ pc' = "nextGroup"
    /\ UNCHANGED <<splitVars, saveVars, chainVars, confVars, storeVars, batchVars, aggVars, group, batch, groupStart,
                   sleeping, inflight, m, now, fetchLog,
                   error, writes>>

\* lines 151-161: the merge loop; it returns, or it raises and rejects
\* initTokens and processTransfers.
MergeMetadata ==
    /\ pc = "nextGroup"
    /\ group = Len(splitIntoBatches(tokenURIs, rate))
    /\ tokens' = MergeLoop(tokens, newTokens, tokenURIs, metadatas, 1)
    /\ IF \E i \in 1..Len(newTokens) : MergeThrows(metadatas, i)
       THEN pc' = "failed" /\ error' = Rejection("merge")
       ELSE pc' = "upsertOwners" /\ error' = error
    /\ UNCHANGED <<splitVars, saveVars, chainVars, confVars, storeVars, transfersData, tokensIds, ownersIds, owners,
                   newTokens, transfers, aggVars, groupVars, now, fetchLog, writes>>

\* line 122: the owners are upserted.
UpsertOwners ==
    /\ pc = "upsertOwners"
    /\ dbOwners' = Upsert(dbOwners, owners)
    /\ writes' = Append(writes, "Owner")
    /\ pc' = "upsertTokens"
    /\ UNCHANGED <<splitVars, saveVars, chainVars, confVars, dbTokens, dbTransfers, batchVars, aggVars, groupVars,
                   now, fetchLog,
                   error>>

\* line 123: the tokens are upserted.
UpsertTokens ==
    /\ pc = "upsertTokens"
    /\ dbTokens' = Upsert(dbTokens, tokens)
    /\ writes' = Append(writes, "Token")
    /\ pc' = "upsertTransfers"
    /\ UNCHANGED <<splitVars, saveVars, chainVars, confVars, dbOwners, dbTransfers, batchVars, aggVars, groupVars,
                   now, fetchLog,
                   error>>

\* line 124: the transfers are upserted and processTransfers returns.
UpsertTransfers ==
    /\ pc = "upsertTransfers"
    /\ dbTransfers' = Upsert(dbTransfers,
                             [id \in {transfers[i].id : i \in 1..Len(transfers)} |->
                                 CHOOSE t \in {transfers[i] : i \in 1..Len(transfers)} : t.id = id])
    /\ writes' = Append(writes, "Transfer")
    /\ pc' = "idle"
    /\ UNCHANGED <<splitVars, saveVars, chainVars, confVars, dbOwners, dbTokens, batchVars, aggVars, groupVars,
                   now, fetchLog,
                   error>>

\* Time passes up to the next sleep() that elapses or, when none is pending,
\* by the latency of a GET: a GET answers at once or within Latency.
Tick ==
    /\ pc \in {"join", "failed"}
    /\ \A k \in sleeping : Deadline(k) > now
    /\ \/ /\ sleeping # {}
          /\ now' = CHOOSE t \in {Deadline(k) : k \in sleeping} :
                        \A k \in sleeping : t <= Deadline(k)
       \/ /\ sleeping = {}
          /\ inflight # {}
          /\ now = Last(fetchLog).at
          /\ now' = now + Latency
    /\ UNCHANGED <<splitVars, saveVars, chainVars, confVars, storeVars, pc, batchVars, aggVars, groupVars, fetchLog,
                   error, writes>>

Next ==
    \/ ReceiveBatch
    \/ FindTokens
    \/ FindTokensFail
    \/ FindOwners
    \/ FindOwnersFail
    \/ Resolve
    \/ AggregatePage
    \/ AggregateFail
    \/ AggregateReturn
    \/ StartGroup
    \/ \E k \in 1..MaxRate : TimerFire(k)
    \/ \E k \in 1..MaxRate : FetchResolve(k)
    \/ \E k \in 1..MaxRate : FetchFail(k)
    \/ JoinGroup
    \/ MergeMetadata
    \/ UpsertOwners
    \/ UpsertTokens
    \/ UpsertTransfers
    \/ Tick

Spec == Init /\ [][Next]_vars

\* The handler under an event loop that runs every continuation that is
\* ready and every timer that is due, with a store, an RPC endpoint and
\* gateways that answer every request, with a result or with an error.
Fairness ==
    /\ WF_vars(FindTokens \/ FindTokensFail)
    /\ WF_vars(FindOwners \/ FindOwnersFail)
    /\ WF_vars(Resolve)
    /\ WF_vars(AggregatePage \/ AggregateFail)
    /\ WF_vars(AggregateReturn)
    /\ WF_vars(StartGroup)
    /\ WF_vars(Tick)
    /\ \A k \in 1..MaxRate : WF_vars(TimerFire(k))
    /\ \A k \in 1..MaxRate : WF_vars(FetchResolve(k) \/ FetchFail(k))
    /\ WF_vars(JoinGroup)
    /\ WF_vars(MergeMetadata)
    /\ WF_vars(UpsertOwners)
    /\ WF_vars(UpsertTokens)
    /\ WF_vars(UpsertTransfers)

FairSpec == Spec /\ Fairness

(***************************************************************************)
(* splitIntoBatches on its own: a for-of loop over the generator, for      *)
(* every list of up to MaxLen items and every maxBatchSize in 1..MaxSize.  *)
(***************************************************************************)
Items == {"x", "y"}
Lists == UNION {[1..n -> Items] : n \in 0..MaxLen}

SplitInit ==
    /\ HandlerInit
    /\ rate = 1
    /\ page = 1
    /\ splitList \in Lists
    /\ splitSize \in 1..MaxSize
    /\ yielded = <<>>
    /\ tokensKeys = <<>>

\* One iteration of the for-of loop: the next chunk the generator yields.
TakeChunk ==
    /\ Len(yielded) < Len(splitIntoBatches(splitList, splitSize))
    /\ yielded' = Append(yielded, splitIntoBatches(splitList, splitSize)[Len(yielded) + 1])
    /\ UNCHANGED <<handlerVars, saveVars, splitList, splitSize>>

SplitNext == TakeChunk

SplitSpec == SplitInit /\ [][SplitNext]_vars

(***************************************************************************)
(* Properties.                                                             *)
(***************************************************************************)
\* Ids and positions the batch refers to, read off the transfer list.
Positions == 1..Len(transfersData)
TokenIdAt(i) == toString(transfersData[i].tokenIndex)
ReferencedTokens == {TokenIdAt(i) : i \in Positions}
ReferencedOwners == {transfersData[i].from : i \in Positions}
                        \cup {transfersData[i].to : i \in Positions}
Refs(id) == {i \in Positions : TokenIdAt(i) = id}
LastRef(id) == CHOOSE i \in Refs(id) : \A j \in Refs(id) : j <= i
FirstRef(id) == CHOOSE i \in Refs(id) : \A j \in Refs(id) : i <= j
Range(seq) == {seq[i] : i \in 1..Len(seq)}

\* The whole batch has been upserted and the handler has returned.
Flushed == pc = "idle" /\ height > 0
\* processTransfers has been rejected, by an error of one of the causes.
FailedBy(causes) == pc = "failed" /\ error[1].cause \in causes
\* The resolution loop of the current batch has run.
Resolved == \/ pc \in {"aggregate", "nextGroup", "join", "upsertOwners", "upsertTokens",
                       "upsertTransfers"}
            \/ FailedBy({"aggregate", "fetch", "merge"})
            \/ Flushed
\* The loop has run and the Token table still is what the lookup of the
\* current batch saw.
TokensNotYetUpserted == \/ pc \in {"aggregate", "nextGroup", "join", "upsertOwners",
                                   "upsertTokens"}
                        \/ FailedBy({"aggregate", "fetch", "merge"})
TokensUpserted == pc = "upsertTransfers" \/ Flushed
\* The merge loop of initTokens has run.
Merged == pc \in {"upsertOwners", "upsertTokens", "upsertTransfers"} \/ Flushed

\* C1: a token referenced by several transfers of a batch ends up, in memory
\* and in the store, with the Owner whose id is the `to` of the last of them.
C1_LastTransferWins ==
    Resolved =>
        \A id \in ReferencedTokens :
            Cardinality(Refs(id)) > 1 =>
                LET to == transfersData[LastRef(id)].to
                IN  /\ to \in DOMAIN owners
                    /\ owners[to].id = to
                    /\ tokens[id].owner = Some(owners[to])
                    /\ TokensUpserted => dbTokens[id].owner = Some(owners[to])

\* C1 witness: a flushed batch moved a token that was loaded from the store
\* twice, to two different owners.
C1_Witness ==
    /\ Flushed
    /\ \E id \in ReferencedTokens :
          /\ Cardinality(Refs(id)) > 1
          /\ id \notin Range(newTokens)
          /\ transfersData[FirstRef(id)].to # transfersData[LastRef(id)].to
          /\ dbTokens[id].owner = Some(NewOwner(transfersData[LastRef(id)].to))

\* C2: after the resolution loop the owners map is keyed by exactly the
\* `from` and `to` addresses of the batch and the tokens map by exactly its
\* token ids, each key holding the one entity with that id.
C2_MapsCoverExactlyTheBatch ==
    Resolved =>
        /\ DOMAIN owners = ReferencedOwners
        /\ DOMAIN tokens = ReferencedTokens
        /\ \A id \in DOMAIN owners : owners[id].id = id
        /\ \A id \in DOMAIN tokens : tokens[id].id = id
        /\ \A i \in Positions : tokens[TokenIdAt(i)].index = transfersData[i].tokenIndex

\* C2 witness: the loop has just run on a batch that repeats an address and
\* a token, with some entities loaded from the store and some left out of
\* the batch.
C2_Witness ==
    /\ pc = "aggregate"
    /\ Len(transfersData) > Cardinality(ReferencedTokens)
    /\ 2 * Len(transfersData) > Cardinality(ReferencedOwners)
    /\ DOMAIN dbOwners \cap ReferencedOwners # {}
    /\ DOMAIN dbOwners \ ReferencedOwners # {}
    /\ DOMAIN dbTokens \ ReferencedTokens # {}

\* Calls of fetchTokenMetadata made for the current batch, and those made
\* for position i (1-based) of its URI list.
BatchFetches == {j \in 1..Len(fetchLog) : fetchLog[j].batch = height}
PositionOf(e) == (e.group - 1) * rate + e.index + 1
FetchesAt(i) == {j \in BatchFetches : PositionOf(fetchLog[j]) = i}
\* The aggregate call of the current batch has returned.
Aggregated == pc \in {"nextGroup", "join"} \/ FailedBy({"fetch", "merge"}) \/ Merged

RECURSIVE Flatten(_)
Flatten(seqs) == IF seqs = <<>> THEN <<>> ELSE Head(seqs) \o Flatten(Tail(seqs))

\* C3: newTokens holds every token id of the batch that the store did not
\* return, once, and no other; each of them gets one tokenURI call and one
\* call of fetchTokenMetadata.
C3_NewTokensListedOnce ==
    /\ Resolved => Cardinality(Range(newTokens)) = Len(newTokens)
    /\ TokensNotYetUpserted => Range(newTokens) = ReferencedTokens \ DOMAIN dbTokens
    /\ Aggregated => Flatten(aggCalls) = [i \in 1..Len(newTokens) |-> tokens[newTokens[i]].index]
    /\ Resolved => \A j \in BatchFetches :
                       /\ PositionOf(fetchLog[j]) \in 1..Len(newTokens)
                       /\ FetchesAt(PositionOf(fetchLog[j])) = {j}
                       /\ fetchLog[j].uri = tokenURIs[PositionOf(fetchLog[j])]
    /\ Merged => \A i \in 1..Len(newTokens) : Cardinality(FetchesAt(i)) = 1

\* C3 witness: a flushed batch created a token and moved it twice, A -> B
\* then B -> C.
C3_Witness ==
    /\ Flushed
    /\ \E id \in Range(newTokens) :
          /\ Cardinality(Refs(id)) = 2
          /\ transfersData[FirstRef(id)].to = transfersData[LastRef(id)].from
          /\ transfersData[FirstRef(id)].to # transfersData[LastRef(id)].to
          /\ transfersData[FirstRef(id)].from # transfersData[LastRef(id)].to
          /\ Cardinality(BatchFetches) = Len(newTokens)

\* C4: a batch whose tokens are all in the store hands initTokens an empty
\* list, makes no tokenURI call and no fetch, does not fail, and is flushed
\* whole.
C4_StoredTokensNotFetched ==
    /\ (TokensNotYetUpserted /\ ReferencedTokens \subseteq DOMAIN dbTokens) => newTokens = <<>>
    /\ (Resolved /\ newTokens = <<>>) =>
           /\ aggCalls = <<>>
           /\ BatchFetches = {}
           /\ pc # "failed"
    /\ Flushed =>
           /\ \A id \in DOMAIN owners : id \in DOMAIN dbOwners /\ dbOwners[id] = owners[id]
           /\ \A id \in DOMAIN tokens : id \in DOMAIN dbTokens /\ dbTokens[id] = tokens[id]
           /\ \A i \in 1..Len(transfers) :
                  /\ transfers[i].id \in DOMAIN dbTransfers
                  /\ dbTransfers[transfers[i].id] = transfers[i]

\* C4 witness: a later batch whose tokens were all stored has been flushed
\* without any fetch.
C4_Witness ==
    /\ Flushed
    /\ height > 1
    /\ transfersData # <<>>
    /\ newTokens = <<>>
    /\ BatchFetches = {}
    /\ fetchLog # <<>>
    /\ \A i \in Positions : transfersData[i].id \in DOMAIN dbTransfers

\* C5: a stored token keeps its uri, image and attributes in every step; the
\* merge loop of initTokens leaves the tokens loaded from the store alone.
C5_EnrichmentIsNeverRewritten ==
    [][/\ \A id \in DOMAIN dbTokens :
              /\ id \in DOMAIN dbTokens'
              /\ dbTokens'[id].uri = dbTokens[id].uri
              /\ dbTokens'[id].image = dbTokens[id].image
              /\ dbTokens'[id].attributes = dbTokens[id].attributes
       /\ (pc = "nextGroup" /\ pc' = "upsertOwners") =>
              \A id \in DOMAIN dbTokens \cap DOMAIN tokens : tokens'[id] = tokens[id]]_vars

\* C5 witness: a later batch moved a stored token whose pointer has changed
\* on chain since; the stored row has the new owner and the old pointer.
C5_Witness ==
    /\ Flushed
    /\ \E id \in ReferencedTokens \ Range(newTokens) :
          /\ dbTokens[id].uri # Unset
          /\ dbTokens[id].uri # Some(tokenURI(dbTokens[id].index, height))
          /\ dbTokens[id].image # Unset
          /\ dbTokens[id].owner = Some(NewOwner(transfersData[LastRef(id)].to))
          /\ transfersData[LastRef(id)].from # transfersData[LastRef(id)].to

\* The token at position i of newTokens and the pointer the contract gives
\* for it at the block of the batch.
NewTokenAt(i) == tokens[newTokens[i]]
PointerAt(i) == tokenURI(NewTokenAt(i).index, height)

\* C6: aggregate returns one result per argument, result i for argument i,
\* across page boundaries, and the same sequence as with a single page;
\* the merge loop gives token i the result i.
C6_AggregateKeepsOrder ==
    /\ pc = "aggregate" =>
           /\ Len(results) <= Len(newTokens)
           /\ \A i \in 1..Len(results) : results[i] = PointerAt(i)
    /\ Aggregated =>
           /\ Len(tokenURIs) = Len(newTokens)
           /\ \A i \in 1..Len(newTokens) : tokenURIs[i] = PointerAt(i)
           /\ tokenURIs = aggregate(Args, Len(Args), height)
           /\ \A c \in 1..Len(aggCalls) : Len(aggCalls[c]) \in 1..page
    /\ Merged => \A i \in 1..Len(newTokens) : NewTokenAt(i).uri = Some(PointerAt(i))

\* C6 witness: the arguments did not fit one page, and the results of the
\* two pages differ.
C6_Witness ==
    /\ Aggregated
    /\ Len(newTokens) > page
    /\ Len(aggCalls) > 1
    /\ Len(aggCalls[1]) = page
    /\ tokenURIs[1] # tokenURIs[Len(tokenURIs)]

\* The window of the rate ceiling, in ms.
OneSecond == 1000

\* C7: every fetch starts ceil(1000 * (K + 1) / R) ms after the start of its
\* group, and no window of one second [t, t + 1000) holds more than R starts.
C7_RateCeiling ==
    \A j \in 1..Len(fetchLog) :
        LET e == fetchLog[j]
        IN  /\ e.at = e.start + Ceil(OneSecond * (e.index + 1), rate)
            /\ Cardinality({i \in 1..Len(fetchLog) :
                               /\ fetchLog[i].at >= e.at
                               /\ fetchLog[i].at < e.at + OneSecond}) <= rate

\* C7 witness: the fetches of a group answered at once and the first fetch
\* of the next group started exactly one second after one of them.
C7_Witness ==
    \E i, j \in 1..Len(fetchLog) :
        /\ fetchLog[i].batch = fetchLog[j].batch
        /\ fetchLog[j].group = fetchLog[i].group + 1
        /\ fetchLog[j].start = fetchLog[i].at
        /\ fetchLog[j].at = fetchLog[i].at + OneSecond
        /\ fetchLog[i].request.kind = "get"

\* What fetchTokenMetadata(uri) returns when its GET does not fail.
Supported(uri) ==
    startsWith(uri, IpfsScheme) \/ startsWith(uri, HttpScheme) \/ startsWith(uri, HttpsScheme)
DocumentsOf(uri) ==
    IF startsWith(uri, IpfsScheme)
    THEN {Some(doc) : doc \in WebDocs(join(IPFS_GATEWAY,
                                          SubSeq(uri, Len(IpfsScheme) + 1, Len(uri))))}
    ELSE IF Supported(uri) THEN {Some(doc) : doc \in WebDocs(uri)}
    ELSE {Unset}
AttributesOf(doc) ==
    Some([j \in 1..Len(doc.attributes[1]) |->
             [traitType |-> doc.attributes[1][j].trait_type,
              value     |-> doc.attributes[1][j].value]])

C9_GroupsInSequence ==
    /\ pc = "nextGroup" => sleeping = {} /\ inflight = {}
    /\ pc = "join" =>
           /\ Len(metadatas) = (group - 1) * rate
           /\ batch = SubSeq(tokenURIs, (group - 1) * rate + 1, Min(group * rate, Len(tokenURIs)))
    /\ \A i, j \in BatchFetches :
           fetchLog[i].group < fetchLog[j].group =>
               /\ i < j
               /\ fetchLog[i].at <= fetchLog[j].start

\* C9 witness: the timers of a second chunk are armed after the GET of the
\* first chunk has answered late.
C9_Witness ==
    /\ pc = "join"
    /\ group = 2
    /\ sleeping # {}
    /\ metadatas # <<>>
    /\ \A i \in 1..Len(metadatas) : metadatas[i] # Unset
    /\ \E j \in BatchFetches : fetchLog[j].group = 1 /\ fetchLog[j].at < groupStart

\* C10: a pointer with an unsupported scheme makes no GET and raises nothing;
\* its token keeps image and attributes unset while the other new tokens of
\* the batch get theirs.
C10_UnsupportedSchemeIsSkipped ==
    /\ \A j \in 1..Len(fetchLog) :
           ~Supported(fetchLog[j].uri) => fetchLog[j].request.kind = "skip"
    /\ \A k \in inflight : Supported(batch[k])
    /\ FailedBy({"fetch"}) => Supported(error[1].uri)
    /\ Merged =>
           \A i \in 1..Len(newTokens) :
               /\ NewTokenAt(i).uri = Some(PointerAt(i))
               /\ ~Supported(PointerAt(i)) =>
                      NewTokenAt(i).image = Unset /\ NewTokenAt(i).attributes = Unset
               /\ Supported(PointerAt(i)) =>
                      /\ metadatas[i] # Unset
                      /\ NewTokenAt(i).image = metadatas[i][1].image
                      /\ NewTokenAt(i).attributes # Unset

\* C10 witness: a flushed batch created a token with an ftp:// pointer and a
\* token with a supported pointer.
C10_Witness ==
    /\ Flushed
    /\ \E i, j \in 1..Len(newTokens) :
          /\ startsWith(PointerAt(i), <<"f", "t", "p", ":", "/", "/", "x">>)
          /\ dbTokens[newTokens[i]].uri = Some(PointerAt(i))
          /\ dbTokens[newTokens[i]].image = Unset
          /\ dbTokens[newTokens[i]].attributes = Unset
          /\ Supported(PointerAt(j))
          /\ dbTokens[newTokens[j]].image # Unset

\* processTransfers has ended: it has returned or it has been rejected.
Ended == Flushed \/ pc = "failed"
AllWrites == <<"Owner", "Token", "Transfer">>
\* The owners, tokens and transfers of the batch are in the store as they
\* are in memory.
BatchStored ==
    /\ \A id \in DOMAIN owners : id \in DOMAIN dbOwners /\ dbOwners[id] = owners[id]
    /\ \A id \in DOMAIN tokens : id \in DOMAIN dbTokens /\ dbTokens[id] = tokens[id]
    /\ \A i \in 1..Len(transfers) :
           /\ transfers[i].id \in DOMAIN dbTransfers
           /\ dbTransfers[transfers[i].id] = transfers[i]
\* No transfer of the batch is in the store.
NothingStored == \A i \in Positions : transfersData[i].id \notin DOMAIN dbTransfers

\* C11: a batch is never flushed in part: an upsert is issued only after both
\* lookups, every tokenURI call and every fetch of the batch have completed;
\* a batch rejected by a lookup, by the aggregate call or by a fetch has
\* issued no upsert; and every other batch ends with its owners, tokens and
\* transfers upserted.
C11_NeverFlushesPartially ==
    /\ writes # <<>> =>
           /\ pc \in {"upsertTokens", "upsertTransfers", "idle"}
           /\ Len(tokenURIs) = Len(newTokens)
           /\ Len(metadatas) = Len(newTokens)
           /\ \A i \in 1..Len(newTokens) : FetchesAt(i) # {}
           /\ sleeping = {} /\ inflight = {}
    /\ FailedBy({"lookup", "aggregate", "fetch"}) => writes = <<>> /\ NothingStored
    /\ (Ended /\ ~FailedBy({"lookup", "aggregate", "fetch"})) =>
           writes = AllWrites /\ BatchStored

\* C12: when a GET fails, processTransfers is rejected with an error that
\* names the URI of that fetch; the results of its group are not pushed, no
\* fetch of a later group is started, and no new token of the batch is
\* merged or upserted.
C12_FailedFetchFailsTheBatch ==
    FailedBy({"fetch"}) =>
        LET e == error[1]
        IN  /\ e.group = group
            /\ \E k \in 1..Len(batch) :
                   /\ batch[k] = e.uri
                   /\ k \notin sleeping \cup inflight \cup Settled
            /\ \E j \in BatchFetches :
                   /\ fetchLog[j].uri = e.uri
                   /\ fetchLog[j].group = e.group
                   /\ fetchLog[j].request.kind # "skip"
                   /\ fetchLog[j].at <= e.at
            /\ \A j \in BatchFetches : fetchLog[j].group <= e.group
            /\ Len(metadatas) = (group - 1) * rate
            /\ \A i \in 1..Len(newTokens) :
                   /\ NewTokenAt(i).uri = Unset
                   /\ NewTokenAt(i).image = Unset
                   /\ NewTokenAt(i).attributes = Unset
                   /\ newTokens[i] \notin DOMAIN dbTokens
            /\ writes = <<>>
            /\ NothingStored

\* C12 witness: the GET of the first group has failed while a second group
\* was still to come, and nothing is pending any more.
C12_Witness ==
    /\ FailedBy({"fetch"})
    /\ group = 1
    /\ Len(tokenURIs) > rate
    /\ sleeping = {}
    /\ inflight = {}
    /\ error[1].uri = tokenURIs[1]
    /\ Cardinality(BatchFetches) = 1
    /\ error[1].at > groupStart + StaggerDelay(0, rate)

\* C13: after the failure of a GET no fetch is started for an item of the
\* same group whose sleep() had not yet elapsed when the GET failed.
C13_RemainingItemsAborted ==
    FailedBy({"fetch"}) =>
        \A j \in BatchFetches :
            fetchLog[j].group = error[1].group => fetchLog[j].at <= error[1].at

\* C14: a fetched document without `attributes` or without `image` raises
\* nothing: the merge loop leaves the missing field of the token unset, sets
\* the other one, and the batch goes on to the upserts.
C14_MissingFieldsStayUnset ==
    /\ ~FailedBy({"merge"})
    /\ Merged =>
           \A i \in 1..Len(newTokens) :
               metadatas[i] # Unset =>
                   LET doc == metadatas[i][1]
                   IN  /\ NewTokenAt(i).image = doc.image
                       /\ NewTokenAt(i).attributes =
                              IF doc.attributes = Unset THEN Unset ELSE AttributesOf(doc)

\* C15: an ipfs://<path> pointer is requested at the gateway base followed
\* by <path>, the `https://` of the gateway kept as it is; an http:// or
\* https:// pointer is requested unchanged.
C15_GatewayUrlKeepsScheme ==
    \A j \in 1..Len(fetchLog) :
        LET uri == fetchLog[j].uri
            req == fetchLog[j].request
        IN  /\ startsWith(uri, IpfsScheme) =>
                   /\ req.kind = "get"
                   /\ startsWith(req.url, HttpsScheme)
                   /\ req.url = IPFS_GATEWAY \o <<"/">> \o SubSeq(uri, Len(IpfsScheme) + 1, Len(uri))
            /\ (startsWith(uri, HttpScheme) \/ startsWith(uri, HttpsScheme)) =>
                   /\ req.kind = "get"
                   /\ req.url = uri

\* C16: the chunks of splitIntoBatches, taken in order, are consecutive
\* pieces of the list and together the whole list; no chunk is longer than
\* maxBatchSize, every chunk but the last has exactly maxBatchSize items, a
\* list that is not empty gives no empty chunk, and the empty list gives one
\* empty chunk.
C16_ChunksPartitionTheList ==
    LET all == splitIntoBatches(splitList, splitSize)
        got == Flatten(yielded)
    IN  /\ got = SubSeq(splitList, 1, Len(got))
        /\ Len(yielded) = Len(all) => got = splitList
        /\ \A c \in 1..Len(yielded) :
               /\ Len(yielded[c]) <= splitSize
               /\ c < Len(all) => Len(yielded[c]) = splitSize
               /\ splitList # <<>> => yielded[c] # <<>>
        /\ splitList = <<>> => all = << <<>> >>
        /\ splitList # <<>> => Len(all) = Ceil(Len(splitList), splitSize)

\* C16 witness: a list of twice maxBatchSize items has been taken in two
\* full chunks that differ.
C16_Witness ==
    /\ splitSize = 2
    /\ Len(splitList) = 2 * splitSize
    /\ Len(yielded) = Len(splitIntoBatches(splitList, splitSize))
    /\ Len(yielded) = 2
    /\ yielded[1] # yielded[2]

\* C17: the resolution loop makes one Transfer per event of the batch, in
\* the order of the events and with the id of its event, also when events
\* share a token or an owner; its from, to and token are the entities the
\* owners and tokens maps hold for the ids of the event, and it is stored
\* as made.
C17_OneTransferPerEvent ==
    Resolved =>
        /\ Len(transfers) = Len(transfersData)
        /\ \A i \in Positions :
               /\ transfers[i].id = transfersData[i].id
               /\ transfers[i].blockNumber = transfersData[i].block
               /\ transfers[i].from = owners[transfersData[i].from]
               /\ transfers[i].to = owners[transfersData[i].to]
               /\ transfers[i].token \in DOMAIN tokens
               /\ tokens[transfers[i].token].id = TokenIdAt(i)
               /\ \A j \in Positions : transfers[i].id = transfers[j].id => i = j
        /\ Flushed =>
               \A i \in Positions :
                   /\ transfersData[i].id \in DOMAIN dbTransfers
                   /\ dbTransfers[transfersData[i].id] = transfers[i]

\* C17 witness: a flushed batch of three events on one token, the second and
\* third handing it back and forth between two owners.
C17_Witness ==
    /\ Flushed
    /\ Len(transfersData) = 3
    /\ Cardinality(ReferencedTokens) = 1
    /\ transfersData[2].from = transfersData[3].to
    /\ transfersData[2].to = transfersData[3].from
    /\ transfersData[2].to # transfersData[2].from
    /\ Cardinality({dbTransfers[transfersData[i].id] : i \in Positions}) = 3

OwnerStored(o) ==
    /\ o.id \in DOMAIN owners /\ owners[o.id] = o
    /\ o.id \in DOMAIN dbOwners /\ dbOwners[o.id] = o
TokenStored(id) ==
    /\ id \in DOMAIN tokens
    /\ id \in DOMAIN dbTokens /\ dbTokens[id] = tokens[id]

\* C19: the upserts are issued owners first, tokens second, transfers third;
\* every token that is upserted has an owner, which is an owner upserted
\* before it in the same batch; the from, to and token of every transfer that
\* is upserted have been upserted before it in the same batch.
C19_FlushIsClosedAndOrdered ==
    /\ writes \in {SubSeq(AllWrites, 1, n) : n \in 0..3}
    /\ Len(writes) >= 1 => \A id \in DOMAIN owners : OwnerStored(owners[id])
    /\ Len(writes) >= 2 =>
           \A id \in DOMAIN tokens :
               /\ TokenStored(id)
               /\ tokens[id].owner # Unset
               /\ OwnerStored(tokens[id].owner[1])
    /\ Len(writes) = 3 =>
           \A i \in 1..Len(transfers) :
               /\ dbTransfers[transfers[i].id] = transfers[i]
               /\ OwnerStored(transfers[i].from)
               /\ OwnerStored(transfers[i].to)
               /\ TokenStored(transfers[i].token)

\* C19 witness: a second batch has been flushed that created a token and
\* moved a stored token from its owner to another one.
C19_Witness ==
    /\ Flushed
    /\ height = 2
    /\ writes = AllWrites
    /\ newTokens # <<>>
    /\ \E i \in Positions :
          /\ TokenIdAt(i) \notin Range(newTokens)
          /\ transfersData[i].from # transfersData[i].to
          /\ transfersData[i].from \in DOMAIN dbOwners
          /\ dbTokens[TokenIdAt(i)].owner = Some(dbOwners[transfersData[i].to])

\* C20: at no moment are more than MAX_IPFS_REQ_SEC GETs in flight, however
\* the GETs of a group answer or fail.
C20_InFlightWithinCeiling ==
    /\ Cardinality(inflight) <= rate
    /\ pc \notin {"join", "failed"} => inflight = {}

\* C20 witness: with a ceiling of two, both GETs of a group are in flight at
\* the same moment.
C20_Witness ==
    /\ rate = 2
    /\ pc = "join"
    /\ Cardinality(inflight) = 2

(***************************************************************************)
(* The saveTransfers/fetchTokens variant of the pipeline: the same handler *)
(* state, with the `tokens` Map kept as a function and its key order.      *)
(***************************************************************************)
\* 'https://subsquid.myfilebase.com/ipfs/'
SAVE_IPFS_GATEWAY ==
    HttpsScheme \o <<"s", "u", "b", "s", "q", "u", "i", "d", ".", "m", "y", "f", "i", "l", "e",
                     "b", "a", "s", "e", ".", "c", "o", "m", "/", "i", "p", "f", "s", "/">>

\* fetchTokenMetadata of the variant up to its first await.
fetchTokenMetadataRequest(uri) ==
    IF startsWith(uri, IpfsScheme)
    THEN IF ipfsRegExp(uri) = Unset THEN [kind |-> "throw"]
         ELSE [kind |-> "get", url |-> join(SAVE_IPFS_GATEWAY, ipfsRegExp(uri)[1])]
    ELSE IF startsWith(uri, HttpScheme) \/ startsWith(uri, HttpsScheme)
         THEN [kind |-> "get", url |-> uri]
    ELSE [kind |-> "skip"]

\* client.transformResponse: `data.attributes.map(...)` raises when the
\* document has no `attributes`; the image is copied as it is.
transformResponseThrows(data) == data.attributes = Unset
transformResponse(data) ==
    [image      |-> data.image,
     attributes |-> Some([j \in 1..Len(data.attributes[1]) |-> NewAttribute(data.attributes[1][j])])]

\* The orders in which a query may return the rows with the ids of a set.
RowOrders(ids) ==
    {f \in [1..Cardinality(ids) -> ids] : \A i, j \in DOMAIN f : f[i] = f[j] => i = j}

\* tokens.set(token.id, token): a key that is new to the Map goes last.
MapSetKey(keys, id) ==
    IF \E i \in 1..Len(keys) : keys[i] = id THEN keys ELSE Append(keys, id)

\* One iteration of the loop of saveTransfers (lines 112-149), on the loop
\* state st = [owners, tokens, keys, transfers].
saveTransfersStep(st, td) ==
    LET owners1 == ResolveOwner(st.owners, td.from)
        from    == owners1[td.from]
        owners2 == ResolveOwner(owners1, td.to)
        to      == owners2[td.to]
        tokenId == toString(td.tokenIndex)
        isNew   == tokenId \notin DOMAIN st.tokens
        token   == AssignOwner(TokenFor(st.tokens, tokenId, td.tokenIndex), to, isNew)
        transfer == [id |-> td.id, blockNumber |-> td.block, from |-> from,
                     to |-> to, token |-> token.id]
    IN  [owners    |-> owners2,
         tokens    |-> (token.id :> token) @@ st.tokens,
         keys      |-> MapSetKey(st.keys, token.id),
         transfers |-> PushTransfer(st.transfers, transfer)]

RECURSIVE saveTransfersLoop(_, _)
saveTransfersLoop(st, tds) ==
    IF tds = <<>> THEN st
    ELSE CHOOSE end \in {saveTransfersLoop(next, Tail(tds)) :
                             next \in {saveTransfersStep(st, Head(tds))}} : TRUE

\* lines 178-182: the three assignments to tokens[i], for every i from i0 on.
RECURSIVE fetchTokensAssign(_, _, _, _, _)
fetchTokensAssign(toks, list, uris, values, i) ==
    IF i > Len(list) THEN toks
    ELSE fetchTokensAssign(
             [toks EXCEPT ![list[i]] =
                 [@ EXCEPT !.uri = At(uris, i),
                           !.image = MergedField(values, i, "image"),
                           !.attributes = MergedField(values, i, "attributes")]],
             list, uris, values, i + 1)

\* line 165: tokens.map((t) => [BigNumber.from(t.index)])
fetchTokensArgs == [i \in 1..Len(tokensKeys) |-> tokens[tokensKeys[i]].index]

\* lines 52-66 and 98-106: the handler collects the Transfer events of the
\* batch and saveTransfers collects the ids, up to the first findBy.
saveTransfersStart ==
    /\ pc = "idle"
    /\ height < MaxBatches
    /\ \E n \in 0..(MaxEvents - nextLogId) :
       \E choices \in [1..n -> TokenIndices \X Holders] :
          LET emitted == Emit(chainOwner, choices, nextLogId)
              data    == [i \in 1..n |-> getTransfer(emitted.logs[i], height + 1)]
          IN  /\ chainOwner' = emitted.holder
              /\ nextLogId' = nextLogId + n
              /\ transfersData' = data
              /\ tokensIds' = {toString(data[i].tokenIndex) : i \in 1..n}
              /\ ownersIds' = {data[i].from : i \in 1..n} \cup {data[i].to : i \in 1..n}
    /\ height' = height + 1
    /\ tokens' = EmptyMap
    /\ tokensKeys' = <<>>
    /\ owners' = EmptyMap
    /\ transfers' = <<>>
    /\ aggCalls' = <<>>
    /\ results' = <<>>
    /\ tokenURIs' = <<>>
    /\ metadatas' = <<>>
    /\ group' = 0
    /\ batch' = <<>>
    /\ m' = <<>>
    /\ error' = Unset
    /\ writes' = <<>>
    /\ pc' = "findTokens"
    /\ UNCHANGED <<splitVars, confVars, storeVars, newTokens, groupStart, sleeping, inflight, now,
                   fetchLog>>

\* line 108: the Token lookup resolves; the Map keeps the rows in the order
\* the query returned them.
saveTransfersFindTokens ==
    /\ pc = "findTokens"
    /\ tokens' = FindBy(dbTokens, tokensIds)
    /\ tokensKeys' \in RowOrders(DOMAIN tokens')
    /\ pc' = "findOwners"
    /\ UNCHANGED <<splitVars, chainVars, confVars, storeVars, transfersData, tokensIds, ownersIds, owners,
                   newTokens, transfers, aggVars, groupVars, now, fetchLog, error, writes>>

\* line 108: the Token lookup fails and rejects saveTransfers.
saveTransfersFindTokensFail ==
    /\ pc = "findTokens"
    /\ pc' = "failed"
    /\ error' = Rejection("lookup")
    /\ UNCHANGED <<splitVars, saveVars, chainVars, confVars, storeVars, batchVars, aggVars, groupVars,
                   now, fetchLog, writes>>

\* line 109: the Owner lookup resolves.
saveTransfersFindOwners ==
    /\ pc = "findOwners"
    /\ owners' = FindBy(dbOwners, ownersIds)
    /\ pc' = "resolve"
    /\ UNCHANGED <<splitVars, saveVars, chainVars, confVars, storeVars, transfersData, tokensIds,
                   ownersIds, tokens, newTokens, transfers, aggVars, groupVars, now, fetchLog,
                   error, writes>>

\* line 109: the Owner lookup fails and rejects saveTransfers.
saveTransfersFindOwnersFail ==
    /\ pc = "findOwners"
    /\ pc' = "failed"
    /\ error' = Rejection("lookup")
    /\ UNCHANGED <<splitVars, saveVars, chainVars, confVars, storeVars, batchVars, aggVars, groupVars,
                   now, fetchLog, writes>>

\* lines 111-151: the loop; then fetchTokens is called with [...tokens.values()].
saveTransfersResolve ==
    /\ pc = "resolve"
    /\ LET st == saveTransfersLoop([owners |-> owners, tokens |-> tokens, keys |-> tokensKeys,
                                    transfers |-> <<>>], transfersData)
       IN  /\ owners' = st.owners
           /\ tokens' = st.tokens
           /\ tokensKeys' = st.keys
           /\ transfers' = st.transfers
    /\ pc' = "aggregate"
    /\ UNCHANGED <<splitVars, chainVars, confVars, storeVars, transfersData, tokensIds, ownersIds,
                   newTokens, aggVars, groupVars, now, fetchLog, error, writes>>

\* Multicall.aggregate: one eth_call for the next page of calls.
fetchTokensAggregatePage ==
    /\ pc = "aggregate"
    /\ Len(results) < Len(tokensKeys)
    /\ LET from  == Len(results)
           to    == Min(from + page, Len(tokensKeys))
           calls == SubSeq(fetchTokensArgs, from + 1, to)
       IN  /\ aggCalls' = Append(aggCalls, calls)
           /\ results' = results \o [i \in 1..Len(calls) |-> tokenURI(calls[i], height)]
    /\ UNCHANGED <<splitVars, saveVars, chainVars, confVars, storeVars, pc, batchVars, tokenURIs,
                   groupVars, now, fetchLog, error, writes>>

\* Multicall.aggregate: the eth_call of the next page fails; aggregate,
\* fetchTokens (lines 162-167) and saveTransfers are rejected.
fetchTokensAggregateFail ==
    /\ pc = "aggregate"
    /\ Len(results) < Len(tokensKeys)
    /\ pc' = "failed"
    /\ error' = Rejection("aggregate")
    /\ UNCHANGED <<splitVars, saveVars, chainVars, confVars, storeVars, batchVars, aggVars, groupVars,
                   now, fetchLog, writes>>

\* lines 162-169: aggregate returns its results.
fetchTokensAggregateReturn ==
    /\ pc = "aggregate"
    /\ Len(results) = Len(tokensKeys)
    /\ tokenURIs' = results
    /\ metadatas' = <<>>
    /\ group' = 0
    /\ pc' = "nextGroup"
    /\ UNCHANGED <<splitVars, saveVars, chainVars, confVars, storeVars, batchVars, aggCalls, results,
                   batch, groupStart, sleeping, inflight, m, now, fetchLog, error, writes>>

\* lines 170-174: the next chunk is taken and the sleep() of every item is armed.
fetchTokensStartGroup ==
    /\ pc = "nextGroup"
    /\ group < Len(splitIntoBatches(tokenURIs, rate))
    /\ group' = group + 1
    /\ batch' = splitIntoBatches(tokenURIs, rate)[group + 1]
    /\ groupStart' = now
    /\ sleeping' = 1..Len(batch')
    /\ inflight' = {}
    /\ m' = <<>>
    /\ pc' = "join"
    /\ UNCHANGED <<splitVars, saveVars, chainVars, confVars, storeVars, batchVars, aggVars, metadatas,
                   now, fetchLog, error, writes>>

\* lines 173 and 204-218: the sleep() of item k elapses and fetchTokenMetadata
\* runs up to its first await.
fetchTokensTimerFire(k) ==
    /\ pc \in {"join", "failed"}
    /\ k \in sleeping
    /\ now = Deadline(k)
    /\ sleeping' = sleeping \ {k}
    /\ LET req == fetchTokenMetadataRequest(batch[k])
       IN  /\ fetchLog' = Append(fetchLog, [at |-> now, batch |-> height, group |-> group,
                                            start |-> groupStart, index |-> k - 1,
                                            uri |-> batch[k], request |-> req])
           /\ CASE req.kind = "get"  -> /\ inflight' = inflight \cup {k}
                                        /\ UNCHANGED <<m, pc, error>>
                [] req.kind = "skip" -> /\ m' = Append(m, [k |-> k, value |-> Unset])
                                        /\ UNCHANGED <<inflight, pc, error>>
                [] OTHER             -> /\ pc' = "failed"
                                        /\ error' = RejectAll(error, FetchError(batch[k], group, now))
                                        /\ UNCHANGED <<inflight, m>>
    /\ UNCHANGED <<splitVars, saveVars, chainVars, confVars, storeVars, batchVars, aggVars, metadatas,
                   group, batch, groupStart, now, writes>>

\* lines 190-200 and 208-214: the GET of item k answers and
\* transformResponse returns the document.
fetchTokensFetchResolve(k) ==
    /\ pc \in {"join", "failed"}
    /\ k \in inflight
    /\ inflight' = inflight \ {k}
    /\ \E data \in WebDocs(fetchTokenMetadataRequest(batch[k]).url) :
           /\ ~transformResponseThrows(data)
           /\ m' = Append(m, [k |-> k, value |-> Some(transformResponse(data))])
    /\ UNCHANGED <<splitVars, saveVars, chainVars, confVars, storeVars, pc, batchVars, aggVars,
                   metadatas, group, batch, groupStart, sleeping, now, fetchLog, error, writes>>

\* lines 190-200 and 219-221: the GET of item k fails, or it answers with a
\* document transformResponse raises on; the error thrown by
\* fetchTokenMetadata rejects Promise.all, fetchTokens and saveTransfers.
fetchTokensFetchFail(k) ==
    /\ pc \in {"join", "failed"}
    /\ k \in inflight
    /\ inflight' = inflight \ {k}
    /\ pc' = "failed"
    /\ error' = RejectAll(error, FetchError(batch[k], group, now))
    /\ UNCHANGED <<splitVars, saveVars, chainVars, confVars, storeVars, batchVars, aggVars, metadatas,
                   group, batch, groupStart, sleeping, m, now, fetchLog, writes>>

\* lines 171 and 175: Promise.all is fulfilled and its values are pushed.
fetchTokensJoinGroup ==
    /\ pc = "join"
    /\ GroupSettled
    /\ metadatas' = metadatas \o PromiseAllValues
    /\ pc' = "nextGroup"
    /\ UNCHANGED <<splitVars, saveVars, chainVars, confVars, storeVars, batchVars, aggVars, group,
                   batch, groupStart, sleeping, inflight, m, now, fetchLog, error, writes>>

\* lines 178-183: the assignments to every token handed in; fetchTokens returns.
fetchTokensReturn ==
    /\ pc = "nextGroup"
    /\ group = Len(splitIntoBatches(tokenURIs, rate))
    /\ tokens' = fetchTokensAssign(tokens, tokensKeys, tokenURIs, metadatas, 1)
    /\ pc' = "upsertOwners"
    /\ UNCHANGED <<splitVars, saveVars, chainVars, confVars, storeVars, transfersData, tokensIds,
                   ownersIds, owners, newTokens, transfers, aggVars, groupVars, now, fetchLog,
                   error, writes>>

\* line 153: the owners are saved.
saveOwners ==
    /\ pc = "upsertOwners"
    /\ dbOwners' = Upsert(dbOwners, owners)
    /\ writes' = Append(writes, "Owner")
    /\ pc' = "upsertTokens"
    /\ UNCHANGED <<splitVars, saveVars, chainVars, confVars, dbTokens, dbTransfers, batchVars, aggVars,
                   groupVars, now, fetchLog, error>>

\* line 154: the tokens are saved.
saveTokens ==
    /\ pc = "upsertTokens"
    /\ dbTokens' = Upsert(dbTokens, tokens)
    /\ writes' = Append(writes, "Token")
    /\ pc' = "upsertTransfers"
    /\ UNCHANGED <<splitVars, saveVars, chainVars, confVars, dbOwners, dbTransfers, batchVars, aggVars,
                   groupVars, now, fetchLog, error>>

\* line 156: the transfers are inserted and saveTransfers returns.
insertTransfers ==
    /\ pc = "upsertTransfers"
    /\ dbTransfers' = Upsert(dbTransfers,
                             [id \in {transfers[i].id : i \in 1..Len(transfers)} |->
                                 CHOOSE t \in {transfers[i] : i \in 1..Len(transfers)} : t.id = id])
    /\ writes' = Append(writes, "Transfer")
    /\ pc' = "idle"
    /\ UNCHANGED <<splitVars, saveVars, chainVars, confVars, dbOwners, dbTokens, batchVars, aggVars,
                   groupVars, now, fetchLog, error>>

\* Time passes up to the next sleep() that elapses or, when none is pending,
\* by the latency of a GET.
saveTransfersTick ==
    /\ pc \in {"join", "failed"}
    /\ \A k \in sleeping : Deadline(k) > now
    /\ \/ /\ sleeping # {}
          /\ now' = CHOOSE t \in {Deadline(k) : k \in sleeping} :
                        \A k \in sleeping : t <= Deadline(k)
       \/ /\ sleeping = {}
          /\ inflight # {}
          /\ now = Last(fetchLog).at
          /\ now' = now + Latency
    /\ UNCHANGED <<splitVars, saveVars, chainVars, confVars, storeVars, pc, batchVars, aggVars,
                   groupVars, fetchLog, error, writes>>

SaveNext ==
    \/ saveTransfersStart
    \/ saveTransfersFindTokens
    \/ saveTransfersFindTokensFail
    \/ saveTransfersFindOwners
    \/ saveTransfersFindOwnersFail
    \/ saveTransfersResolve
    \/ fetchTokensAggregatePage
    \/ fetchTokensAggregateFail
    \/ fetchTokensAggregateReturn
    \/ fetchTokensStartGroup
    \/ \E k \in 1..MaxRate : fetchTokensTimerFire(k)
    \/ \E k \in 1..MaxRate : fetchTokensFetchResolve(k)
    \/ \E k \in 1..MaxRate : fetchTokensFetchFail(k)
    \/ fetchTokensJoinGroup
    \/ fetchTokensReturn
    \/ saveOwners
    \/ saveTokens
    \/ insertTransfers
    \/ saveTransfersTick

SaveSpec == Init /\ [][SaveNext]_vars

\* C21: in the saveTransfers/fetchTokens variant a token that the lookup
\* returned from storage is not handed to fetchTokens, no tokenURI call is
\* made for it, and until the tokens are saved its uri, image and attributes
\* in memory are those of its stored row, so the save does not rewrite them.
C21_StoredTokensNotEnriched ==
    (pc \notin {"idle", "findTokens"} /\ Len(writes) < 2) =>
        \A id \in DOMAIN tokens \cap DOMAIN dbTokens :
            /\ pc \in {"aggregate", "nextGroup", "join", "upsertOwners", "upsertTokens"} =>
                   id \notin Range(tokensKeys)
            /\ \A index \in Range(Flatten(aggCalls)) : toString(index) # id
            /\ tokens[id].uri = dbTokens[id].uri
            /\ tokens[id].image = dbTokens[id].image
            /\ tokens[id].attributes = dbTokens[id].attributes

====
